---- MODULE Spec2Model ----
(***************************************************************************)
(* Model of the semantic intent-resolution and dispatch engine of api.py:  *)
(* the allow-list, the index rebuild, the resolver, the dispatcher, the    *)
(* session store and the two request endpoints.                            *)
(***************************************************************************)
EXTENDS Integers, Sequences, FiniteSets, TLC

(***************************************************************************)
(* Bounds of the model.                                                    *)
(***************************************************************************)
MaxBatch == 2

(***************************************************************************)
(* Python values.  A value is a record [t, v]: t is the Python type and v  *)
(* the sequence of text fragments of its str() form, so that an f-string   *)
(* is the concatenation of its fragments.                                  *)
(***************************************************************************)
PyNone == [t |-> "NoneType", v |-> <<"None">>]

PyStr(s) == [t |-> "str", v |-> <<s>>]

PyFalse == [t |-> "bool", v |-> <<"False">>]

EmptyStr == [t |-> "str", v |-> <<>>]

\* Python truthiness: None, False and the empty string are falsy.
Truthy(x) == ~ (x.t = "NoneType" \/ x = PyFalse \/ x = EmptyStr)

(***************************************************************************)
(* The action module.  get_available_functions() takes every function of   *)
(* the imported module, whatever the module holds; two contents of the     *)
(* module are enumerated: the shipped automation_functions.py and a        *)
(* module with other handlers.                                             *)
(***************************************************************************)
ShippedModule ==
    {"open_chrome", "open_calculator", "open_notepad",
     "get_cpu_usage", "get_ram_usage", "list_files"}

SwappedModule == {"open_browser", "cpu_load", "cpu_percent", "send_report"}

Modules == {ShippedModule, SwappedModule}

AllNames == ShippedModule \cup SwappedModule

\* A name no module ever defines.
SyntheticName == "rm_rf"

\* A handler: the keyword parameters its signature requires and accepts,
\* and what its body does once called.
HandlerOf(name) ==
    CASE name = "open_chrome" ->
           [required |-> {}, optional |-> {}, body |-> "return", exc |-> "", val |-> PyNone]
      [] name = "open_calculator" ->
           [required |-> {}, optional |-> {}, body |-> "return", exc |-> "", val |-> PyNone]
      [] name = "open_notepad" ->
           [required |-> {}, optional |-> {}, body |-> "return", exc |-> "", val |-> PyNone]
      [] name = "get_cpu_usage" ->
           [required |-> {}, optional |-> {}, body |-> "return", exc |-> "",
            val |-> [t |-> "str", v |-> <<"CPU Usage: ", "12", "%">>]]
      [] name = "get_ram_usage" ->
           [required |-> {}, optional |-> {}, body |-> "return", exc |-> "",
            val |-> [t |-> "str", v |-> <<"RAM Usage: ", "40", "%">>]]
      [] name = "list_files" ->
           [required |-> {}, optional |-> {"directory"}, body |-> "return", exc |-> "",
            val |-> [t |-> "str", v |-> <<"Files in '", ".", "': ", "api.py">>]]
      [] name = "open_browser" ->
           [required |-> {}, optional |-> {}, body |-> "return", exc |-> "", val |-> PyFalse]
      [] name = "cpu_load" ->
           [required |-> {}, optional |-> {}, body |-> "raise", exc |-> "TypeError",
            val |-> PyStr("unsupported operand type(s) for /: 'str' and 'int'")]
      [] name = "cpu_percent" ->
           [required |-> {}, optional |-> {}, body |-> "raise", exc |-> "RuntimeError",
            val |-> PyStr("sensor unavailable")]
      [] name = "send_report" ->
           [required |-> {"to"}, optional |-> {}, body |-> "return", exc |-> "",
            val |-> PyStr("sent")]

(***************************************************************************)
(* Request inputs.                                                         *)
(***************************************************************************)
Prompts == {"open chrome", "show me cpu load", "asdkjhasdkjh"}

Sessions == {"s1", "s2"}

\* params: dict = None.  kw is the set of keyword names of the dict.
NoParams == [isNone |-> TRUE, kw |-> {}]

ParamsSet ==
    {NoParams, [isNone |-> FALSE, kw |-> {}],
     [isNone |-> FALSE, kw |-> {"directory"}], [isNone |-> FALSE, kw |-> {"to"}]}

\* "if params:" -- None and the empty dict are falsy.
ParamsTruthy(params) == ~ params.isNone /\ params.kw # {}

(***************************************************************************)
(* Embedding provider and distance.  encode() is deterministic; texts are  *)
(* placed in a plane and the index measures squared L2 distance, in        *)
(* hundredths.                                                             *)
(***************************************************************************)
Embed(text) ==
    CASE text = "open chrome" -> <<6, 3>>
      [] text = "show me cpu load" -> <<50, 50>>
      [] text = "asdkjhasdkjh" -> <<200, 200>>
      [] text = "open_chrome" -> <<0, 0>>
      [] text = "open_calculator" -> <<0, 30>>
      [] text = "open_notepad" -> <<30, 0>>
      [] text = "get_cpu_usage" -> <<53, 54>>
      [] text = "get_ram_usage" -> <<60, 60>>
      [] text = "list_files" -> <<100, 0>>
      [] text = "open_browser" -> <<10, 3>>
      [] text = "cpu_load" -> <<50, 55>>
      [] text = "cpu_percent" -> <<55, 50>>
      [] text = "send_report" -> <<0, 100>>

Distance(a, b) ==
    (a[1] - b[1]) * (a[1] - b[1]) + (a[2] - b[2]) * (a[2] - b[2])

SIMILARITY_THRESHOLD == 45

(***************************************************************************)
(* State.                                                                  *)
(***************************************************************************)
Slots == {1, 2}

VARIABLES
    phase,              \* "boot", "serving" or "aborted" (startup raised)
    ALLOWED_FUNCTIONS,  \* the keys of the allow-list; the handler of a key is HandlerOf
    collection,         \* the ids of the persisted index "functions"
    session_memory,     \* session id -> list of prompts
    req,                \* per request slot: the endpoint call in progress
    loop,               \* the coroutines started and not yet returned
    direct              \* the last direct call of execute_function, or NoDirect

vars == <<phase, ALLOWED_FUNCTIONS, collection, session_memory, req, loop, direct>>

NoDirect == [function_name |-> PyNone, params |-> NoParams, output |-> PyNone,
             raised |-> FALSE, ran |-> {}, called |-> FALSE]

NoResponse ==
    [status |-> 0, detail |-> PyNone, function |-> PyNone, output |-> PyNone,
     code |-> PyNone, session_history |-> <<>>, results |-> <<>>]

IdleReq ==
    [pc |-> "idle", kind |-> "execute", prompts |-> <<>>, session_id |-> "s1",
     params |-> NoParams, i |-> 0, function_name |-> PyNone, results |-> <<>>,
     resolved |-> <<>>, calls |-> <<>>, history0 |-> <<>>, before |-> <<>>,
     response |-> NoResponse]

\* Contents the index directory ./function_db can hold when the process
\* starts: nothing, or the ids stored by an earlier run over either module.
PersistedContents == {{}, ShippedModule, SwappedModule}

(***************************************************************************)
(* Index rebuild: clear_and_store_functions (api.py) and the stand-alone   *)
(* script function_registry.py.                                            *)
(***************************************************************************)
\* The ids left after the "delete old embeddings" block.  The block is in a
\* try/except that only logs: when get() or delete() raises, nothing is
\* deleted and the rebuild goes on.
AfterDelete(existing, deleteRaises) ==
    IF deleteRaises THEN existing ELSE {}

\* collection.add(ids=function_names, ...): new ids are inserted; an id that
\* is already present is either skipped or rejected, depending on the
\* library version.
AfterAdd(existing, function_names) == existing \cup function_names

clear_and_store_functions(deleteRaises, addRejectsDuplicates) ==
    /\ phase = "boot"
    /\ LET function_names == ALLOWED_FUNCTIONS
           remaining == AfterDelete(collection, deleteRaises)
       IN  IF addRejectsDuplicates /\ remaining \cap function_names # {}
           THEN /\ phase' = "aborted"
                /\ collection' = remaining
           ELSE /\ phase' = "serving"
                /\ collection' = AfterAdd(remaining, function_names)
    /\ UNCHANGED <<ALLOWED_FUNCTIONS, session_memory, req, loop, direct>>

\* function_registry.py: deletes every stored id, then evaluates
\* inspect.getmembers(automation, ...) where the name automation is not
\* defined (the import is automation_functions): NameError, nothing is added.
function_registry_script ==
    /\ phase = "serving"
    /\ collection # {}
    /\ collection' = {}
    /\ UNCHANGED <<phase, ALLOWED_FUNCTIONS, session_memory, req, loop, direct>>

(***************************************************************************)
(* Resolver helpers.                                                       *)
(***************************************************************************)
\* collection.query(n_results=1): the ids at minimal distance (more than one
\* on a tie; the library returns any of them).
Nearest(embedding, coll) ==
    {id \in coll : \A other \in coll :
        Distance(embedding, Embed(id)) <= Distance(embedding, Embed(other))}

\* Variant: a score equal to the threshold is rejected too (">=").
ExceedsThreshold_Inclusive(score) == score >= SIMILARITY_THRESHOLD

\* "if best_match_score > SIMILARITY_THRESHOLD: return None"
ExceedsThreshold(score) == score > SIMILARITY_THRESHOLD

\* The values retrieve_best_function can return for an embedding.
BestFunction(embedding, coll) ==
    IF coll = {}
    THEN {PyNone}
    ELSE {IF ExceedsThreshold(Distance(embedding, Embed(id))) THEN PyNone ELSE PyStr(id)
            : id \in Nearest(embedding, coll)}

(***************************************************************************)
(* Dispatcher: execute_function.                                           *)
(***************************************************************************)
ExecutedSuccessfully == PyStr("Executed Successfully")

\* Calling handler(**kwargs): the call binds when every required parameter
\* is given and every given keyword is a parameter; otherwise Python raises
\* TypeError before the body runs.
Binds(h, kwargs) ==
    /\ h.required \subseteq kwargs
    /\ kwargs \subseteq (h.required \cup h.optional)

CallHandler(name, kwargs) ==
    LET h == HandlerOf(name)
    IN  IF ~ Binds(h, kwargs)
        THEN [kind |-> "raise", exc |-> "TypeError",
              val |-> PyStr("unexpected or missing keyword argument"), ran |-> {}]
        ELSE [kind |-> h.body, exc |-> h.exc, val |-> h.val, ran |-> {name}]

\* Variant: only None is replaced by the marker ("if result is not None").
Normalize_NoneOnly(result) == IF result = PyNone THEN ExecutedSuccessfully ELSE result

\* "return result if result else 'Executed Successfully'"
Normalize(result) == IF Truthy(result) THEN result ELSE ExecutedSuccessfully

\* The except clauses of execute_function, in order.
Caught(exc, msg, function_name) ==
    IF exc = "TypeError"
    THEN [t |-> "str",
          v |-> <<"Error: Function ">> \o function_name.v \o <<" requires parameters.">>]
    ELSE msg

\* "if function_name not in ALLOWED_FUNCTIONS"
Allowed(function_name, allowed) ==
    function_name.t = "str" /\ \E n \in allowed : function_name = PyStr(n)

NameOf(function_name) == function_name.v[1]

\* execute_function(function_name, params): output is the returned value,
\* raised tells whether an exception left the function, ran is the set of
\* handlers whose body ran.
execute_function(function_name, params, allowed) ==
    IF ~ Allowed(function_name, allowed)
    THEN [output |-> Caught("ValueError", PyStr("Unauthorized function access"), function_name),
          raised |-> FALSE, ran |-> {}]
    ELSE LET kwargs == IF ParamsTruthy(params) THEN params.kw ELSE {}
             c == CallHandler(NameOf(function_name), kwargs)
         IN  IF c.kind = "return"
             THEN [output |-> Normalize(c.val), raised |-> FALSE, ran |-> c.ran]
             ELSE [output |-> Caught(c.exc, c.val, function_name),
                   raised |-> FALSE, ran |-> c.ran]

\* code_generator.generate_code: the snippet text, by the name it embeds.
generate_code(function_name) == [t |-> "str", v |-> <<"from automation import ">> \o function_name.v]

(***************************************************************************)
(* Request endpoints: execute and execute_multiple.  Both are "async def"  *)
(* coroutines with no await in their body: once the event loop starts one, *)
(* it runs to its return before any other coroutine runs.                  *)
(***************************************************************************)
BatchInputs == UNION {[1..n -> Prompts] : n \in 0..MaxBatch}

\* session_memory.get(session_id, [])
History(mem, session_id) ==
    IF session_id \in DOMAIN mem THEN mem[session_id] ELSE <<>>

Contains(list, x) == \E k \in 1..Len(list) : list[k] = x

\* A step of request r runs only once the event loop has started r.
CanRun(r) == r \in loop

\* Variant: requests run in parallel threads; a request starts at any time.
LoopIdle_Threads == TRUE

\* The event loop starts a waiting coroutine only when the running one has
\* returned: no endpoint body holds an await.
LoopIdle == loop = {}

Prompt(r) == req[r].prompts[req[r].i]

Quiet == direct = NoDirect /\ phase = "serving"

\* A request arrives: its coroutine is created and waits for the event loop.
Receive(r, kind, prompts, session_id, params) ==
    /\ Quiet
    /\ req[r].pc = "idle"
    /\ req' = [req EXCEPT ![r] = [IdleReq EXCEPT !.pc = "queued", !.kind = kind,
                  !.prompts = prompts, !.session_id = session_id, !.params = params]]
    /\ UNCHANGED <<phase, ALLOWED_FUNCTIONS, collection, session_memory, loop, direct>>

\* The session the requests of the single-request specification belong to.
MainSessions == {"s1"}

ReceiveExecute(r) ==
    \E prompt \in Prompts, session_id \in MainSessions, params \in ParamsSet :
        Receive(r, "execute", <<prompt>>, session_id, params)

ReceiveExecuteMultiple(r) ==
    \E prompts \in BatchInputs, session_id \in MainSessions :
        Receive(r, "execute_multiple", prompts, session_id, NoParams)

\* The event loop picks a waiting coroutine and starts it.
Schedule(r) ==
    /\ Quiet
    /\ LoopIdle
    /\ req[r].pc = "queued"
    /\ loop' = loop \cup {r}
    /\ req' = [req EXCEPT ![r].pc = IF Len(req[r].prompts) = 0 THEN "respond" ELSE "encode",
                          ![r].i = IF Len(req[r].prompts) = 0 THEN 0 ELSE 1,
                          ![r].history0 = History(session_memory, req[r].session_id)]
    /\ UNCHANGED <<phase, ALLOWED_FUNCTIONS, collection, session_memory, direct>>

\* Variant: the session store is skipped and the index is queried at once.
AfterEncode_SkipRecord == "query"

\* retrieve_best_function, line 74: the embedding of the prompt is computed;
\* the session store comes next.
AfterEncode == "setdefault"

Encode(r) ==
    /\ CanRun(r)
    /\ req[r].pc = "encode"
    /\ req' = [req EXCEPT ![r].pc = AfterEncode,
                          ![r].before = History(session_memory, req[r].session_id)]
    /\ UNCHANGED <<phase, ALLOWED_FUNCTIONS, collection, session_memory, loop, direct>>

\* line 77: session_memory.setdefault(session_id, [])
SetDefault(r) ==
    /\ CanRun(r)
    /\ req[r].pc = "setdefault"
    /\ session_memory' =
          IF req[r].session_id \in DOMAIN session_memory
          THEN session_memory
          ELSE (req[r].session_id :> <<>>) @@ session_memory
    /\ req' = [req EXCEPT ![r].pc = "test"]
    /\ UNCHANGED <<phase, ALLOWED_FUNCTIONS, collection, loop, direct>>

\* Variant: the membership test is dropped and every prompt is appended.
NeedsAppend_Always(history, prompt) == TRUE

\* line 78: "if prompt not in session_memory[session_id]"
NeedsAppend(history, prompt) == ~ Contains(history, prompt)

Test(r) ==
    /\ CanRun(r)
    /\ req[r].pc = "test"
    /\ req' = [req EXCEPT ![r].pc =
                  IF NeedsAppend(session_memory[req[r].session_id], Prompt(r))
                  THEN "append" ELSE "query"]
    /\ UNCHANGED <<phase, ALLOWED_FUNCTIONS, collection, session_memory, loop, direct>>

\* line 79: session_memory[session_id].append(prompt)
AppendPrompt(r) ==
    /\ CanRun(r)
    /\ req[r].pc = "append"
    /\ session_memory' = [session_memory EXCEPT ![req[r].session_id] = Append(@, Prompt(r))]
    /\ req' = [req EXCEPT ![r].pc = "query"]
    /\ UNCHANGED <<phase, ALLOWED_FUNCTIONS, collection, loop, direct>>

\* lines 81-100: the index query, the empty test and the threshold test.
Query(r) ==
    /\ CanRun(r)
    /\ req[r].pc = "query"
    /\ \E best \in BestFunction(Embed(Prompt(r)), collection) :
          req' = [req EXCEPT ![r].pc = "dispatch", ![r].function_name = best,
                             ![r].resolved = Append(@, best), ![r].before = <<>>]
    /\ UNCHANGED <<phase, ALLOWED_FUNCTIONS, collection, session_memory, loop, direct>>

\* Variant: the no-match test is dropped and every resolver result is dispatched.
ShouldDispatch_Always(function_name) == TRUE

\* "if not function_name" (execute), "if function_name" (execute_multiple)
ShouldDispatch(function_name) == Truthy(function_name)

CallRecord(r, params) ==
    LET x == execute_function(req[r].function_name, params, ALLOWED_FUNCTIONS)
    IN  [i |-> req[r].i, function_name |-> req[r].function_name, params |-> params,
         output |-> x.output, raised |-> x.raised, ran |-> x.ran]

\* execute, lines 131-145: 404 on no match, otherwise dispatch and respond.
DispatchExecute(r) ==
    /\ CanRun(r)
    /\ req[r].pc = "dispatch"
    /\ req[r].kind = "execute"
    /\ IF ~ ShouldDispatch(req[r].function_name)
       THEN req' = [req EXCEPT ![r].pc = "done",
                       ![r].response = [NoResponse EXCEPT !.status = 404,
                           !.detail = PyStr("No matching function found")]]
       ELSE LET c == CallRecord(r, req[r].params)
            IN  req' = [req EXCEPT ![r].pc = "done", ![r].calls = Append(@, c),
                       ![r].response = [NoResponse EXCEPT !.status = 200,
                           !.function = req[r].function_name,
                           !.output = c.output,
                           !.code = generate_code(req[r].function_name),
                           !.session_history = History(session_memory, req[r].session_id)]]
    /\ loop' = loop \ {r}
    /\ UNCHANGED <<phase, ALLOWED_FUNCTIONS, collection, session_memory, direct>>

\* The entry of the results list for a prompt that resolved to nothing.
NoMatchEntry ==
    [function |-> PyNone, output |-> PyStr("No matching function found"), code |-> PyNone]

\* Variant: the loop stops at the first prompt that resolved to nothing.
AfterEntry_BreakOnNoMatch(i, n, matched) == IF matched /\ i < n THEN "encode" ELSE "respond"

\* After the entry of prompt i is appended, the for loop goes on with the
\* next prompt, or ends after the last one.
AfterEntry(i, n, matched) == IF i < n THEN "encode" ELSE "respond"

\* execute_multiple, lines 155-168: one loop iteration after the resolver.
DispatchMultiple(r) ==
    /\ CanRun(r)
    /\ req[r].pc = "dispatch"
    /\ req[r].kind = "execute_multiple"
    /\ LET matched == ShouldDispatch(req[r].function_name)
           c == CallRecord(r, NoParams)
           entry == IF matched
                    THEN [function |-> req[r].function_name, output |-> c.output,
                          code |-> generate_code(req[r].function_name)]
                    ELSE NoMatchEntry
           next == AfterEntry(req[r].i, Len(req[r].prompts), matched)
       IN  req' = [req EXCEPT ![r].pc = next,
                       ![r].i = IF next = "encode" THEN @ + 1 ELSE @,
                       ![r].calls = IF matched THEN Append(@, c) ELSE @,
                       ![r].results = Append(@, entry)]
    /\ UNCHANGED <<phase, ALLOWED_FUNCTIONS, collection, session_memory, loop, direct>>

\* execute_multiple, lines 170-173: the response.
RespondMultiple(r) ==
    /\ CanRun(r)
    /\ req[r].pc = "respond"
    /\ req' = [req EXCEPT ![r].pc = "done",
                  ![r].response = [NoResponse EXCEPT !.status = 200,
                      !.session_history = History(session_memory, req[r].session_id),
                      !.results = req[r].results]]
    /\ loop' = loop \ {r}
    /\ UNCHANGED <<phase, ALLOWED_FUNCTIONS, collection, session_memory, direct>>

\* The response leaves the server; the slot is free again.
Collect(r) ==
    /\ req[r].pc = "done"
    /\ req' = [req EXCEPT ![r] = IdleReq]
    /\ UNCHANGED <<phase, ALLOWED_FUNCTIONS, collection, session_memory, loop, direct>>

(***************************************************************************)
(* execute_function called directly, with any name.                        *)
(***************************************************************************)
DirectExecute ==
    /\ Quiet
    /\ \A r \in Slots : req[r].pc = "idle"
    /\ \E name \in AllNames \cup {SyntheticName}, params \in ParamsSet :
          LET x == execute_function(PyStr(name), params, ALLOWED_FUNCTIONS)
          IN  direct' = [function_name |-> PyStr(name), params |-> params,
                         output |-> x.output, raised |-> x.raised, ran |-> x.ran,
                         called |-> TRUE]
    /\ UNCHANGED <<phase, ALLOWED_FUNCTIONS, collection, session_memory, req, loop>>

DirectReturn ==
    /\ direct # NoDirect
    /\ direct' = NoDirect
    /\ UNCHANGED <<phase, ALLOWED_FUNCTIONS, collection, session_memory, req, loop>>

(***************************************************************************)
(* Specification of one server process, from its start, handling one       *)
(* request at a time.                                                      *)
(***************************************************************************)
Init ==
    /\ phase = "boot"
    /\ ALLOWED_FUNCTIONS \in Modules
    /\ collection \in PersistedContents
    /\ session_memory = <<>>
    /\ req = [r \in Slots |-> IdleReq]
    /\ loop = {}
    /\ direct = NoDirect

Startup ==
    \E deleteRaises \in BOOLEAN, addRejectsDuplicates \in BOOLEAN :
        clear_and_store_functions(deleteRaises, addRejectsDuplicates)

RequestStep(r) ==
    \/ Schedule(r)
    \/ Encode(r)
    \/ SetDefault(r)
    \/ Test(r)
    \/ AppendPrompt(r)
    \/ Query(r)
    \/ DispatchExecute(r)
    \/ DispatchMultiple(r)
    \/ RespondMultiple(r)
    \/ Collect(r)

Next ==
    \/ Startup
    \/ function_registry_script
    \/ ReceiveExecute(1)
    \/ ReceiveExecuteMultiple(1)
    \/ RequestStep(1)
    \/ DirectExecute
    \/ DirectReturn

Spec == Init /\ [][Next]_vars

(***************************************************************************)
(* Specification of a running server receiving two requests at a time.     *)
(* It starts from the state a clean startup over the shipped module        *)
(* leaves.                                                                 *)
(***************************************************************************)
ConcPrompts == {"open chrome", "asdkjhasdkjh"}

ConcBatchInputs == UNION {[1..n -> ConcPrompts] : n \in 0..MaxBatch}

InitConc ==
    /\ phase = "serving"
    /\ ALLOWED_FUNCTIONS = ShippedModule
    /\ collection = ShippedModule
    /\ session_memory = <<>>
    /\ req = [r \in Slots |-> IdleReq]
    /\ loop = {}
    /\ direct = NoDirect

ReceiveConc(r) ==
    \/ \E prompt \in ConcPrompts, session_id \in Sessions :
          Receive(r, "execute", <<prompt>>, session_id, NoParams)
    \/ \E prompts \in ConcBatchInputs, session_id \in Sessions :
          Receive(r, "execute_multiple", prompts, session_id, NoParams)

NextConc ==
    \E r \in Slots :
        \/ ReceiveConc(r)
        \/ RequestStep(r)

SpecConc == InitConc /\ [][NextConc]_vars

(***************************************************************************)
(* Observations used by the properties.                                    *)
(***************************************************************************)
\* Every call of execute_function visible in the state: the direct one and
\* those made by the requests in progress.
Dispatches ==
    {[function_name |-> direct.function_name, params |-> direct.params,
      output |-> direct.output, raised |-> direct.raised, ran |-> direct.ran]
        : x \in IF direct.called THEN {1} ELSE {}}
    \cup
    {[function_name |-> req[r].calls[k].function_name, params |-> req[r].calls[k].params,
      output |-> req[r].calls[k].output, raised |-> req[r].calls[k].raised,
      ran |-> req[r].calls[k].ran]
        : <<r, k>> \in {y \in Slots \X (1..MaxBatch + 1) : y[2] <= Len(req[y[1]].calls)}}

\* The dispatches of a registered name.
RegisteredDispatches == {d \in Dispatches : Allowed(d.function_name, ALLOWED_FUNCTIONS)}

KwargsOf(d) == IF ParamsTruthy(d.params) THEN d.params.kw ELSE {}

ParameterErrorMessage(function_name) ==
    [t |-> "str", v |-> <<"Error: Function ", NameOf(function_name), " requires parameters.">>]

NoDuplicates(list) ==
    \A j, k \in 1..Len(list) : list[j] = list[k] => j = k

(***************************************************************************)
(* C1: a dispatch of a name that is not in the allow-list runs no handler  *)
(* and fails: the failure reaches the caller as an error, not as a         *)
(* returned outcome of the kind a handler produces.                        *)
(***************************************************************************)
C1_UnauthorizedFails ==
    \A d \in Dispatches :
        ~ Allowed(d.function_name, ALLOWED_FUNCTIONS) => d.ran = {} /\ d.raised

(***************************************************************************)
(* C4: once the server is serving, that is after the index rebuild, the    *)
(* ids of the index are exactly the registered action names.               *)
(***************************************************************************)
C4_IndexEqualsRegistry ==
    phase = "serving" => collection = ALLOWED_FUNCTIONS

(***************************************************************************)
(* C5: a dispatch of a registered action never raises; its outcome is the  *)
(* ParameterError message exactly when the handler could not be called     *)
(* with the given parameters, and the exception's own message when the     *)
(* body of the handler raised.                                             *)
(***************************************************************************)
C5_ParameterErrorExactly ==
    \A d \in RegisteredDispatches :
        LET h == HandlerOf(NameOf(d.function_name))
            bound == Binds(h, KwargsOf(d))
        IN  /\ ~ d.raised
            /\ (d.output = ParameterErrorMessage(d.function_name)) <=> ~ bound
            /\ (bound /\ h.body = "raise") => d.output = h.val

(***************************************************************************)
(* C6 as stated: when the handler of a registered action returned, the     *)
(* outcome is the marker if it returned None and the returned value,       *)
(* unchanged, if it returned anything else.                                *)
(***************************************************************************)
HandlerReturned(d) ==
    /\ d.ran # {}
    /\ HandlerOf(NameOf(d.function_name)).body = "return"

C6_MarkerExactlyNoValue ==
    \A d \in RegisteredDispatches :
        HandlerReturned(d) =>
            LET val == HandlerOf(NameOf(d.function_name)).val
            IN  d.output = IF val = PyNone THEN ExecutedSuccessfully ELSE val

(***************************************************************************)
(* C6 amended: when the handler of a registered action returned, the       *)
(* outcome is the marker if the returned value is falsy (None, False, an   *)
(* empty string) and the returned value, unchanged, if it is truthy; the   *)
(* outcome is never falsy.                                                 *)
(***************************************************************************)
C6_MarkerForFalsy ==
    \A d \in RegisteredDispatches :
        HandlerReturned(d) =>
            LET val == HandlerOf(NameOf(d.function_name)).val
            IN  /\ d.output = IF Truthy(val) THEN val ELSE ExecutedSuccessfully
                /\ Truthy(d.output)

\* A handler returned False and the outcome is the marker.
C6_Witness ==
    \E d \in RegisteredDispatches :
        /\ HandlerReturned(d)
        /\ HandlerOf(NameOf(d.function_name)).val = PyFalse
        /\ d.output = ExecutedSuccessfully

(***************************************************************************)
(* C3: the resolver returns None when the index is empty or when every     *)
(* entry is farther than the threshold from the prompt; otherwise it       *)
(* returns the name of an entry at minimal distance, which is within the   *)
(* threshold.                                                              *)
(***************************************************************************)
C3_Resolved(r) ==
    LET e == Embed(Prompt(r))
        best == req'[r].function_name
    IN  IF collection = {} \/ \A id \in collection : Distance(e, Embed(id)) > SIMILARITY_THRESHOLD
        THEN best = PyNone
        ELSE /\ best.t = "str"
             /\ NameOf(best) \in collection
             /\ Distance(e, Embed(NameOf(best))) <= SIMILARITY_THRESHOLD
             /\ \A id \in collection :
                   Distance(e, Embed(NameOf(best))) <= Distance(e, Embed(id))

C3_ThresholdDecides ==
    [][\A r \in Slots :
          (req[r].pc = "query" /\ req'[r].pc = "dispatch") => C3_Resolved(r)]_vars

\* The resolver has returned a name whose distance is exactly the threshold.
C3_Witness ==
    \E r \in Slots :
        /\ req[r].pc = "dispatch"
        /\ req[r].function_name = PyStr("open_chrome")
        /\ Distance(Embed(Prompt(r)), Embed("open_chrome")) = SIMILARITY_THRESHOLD

(***************************************************************************)
(* C2: no history ever holds a prompt twice; a call of the resolver leaves *)
(* the history of its session unchanged when the prompt was already there  *)
(* and appends the prompt at the end otherwise; no step removes or         *)
(* reorders entries of any history.                                        *)
(***************************************************************************)
IsPrefix(a, b) == Len(a) <= Len(b) /\ \A k \in 1..Len(a) : a[k] = b[k]

C2_Recorded(r) ==
    LET now == History(session_memory, req[r].session_id)
    IN  now = IF Contains(req[r].before, Prompt(r))
              THEN req[r].before
              ELSE Append(req[r].before, Prompt(r))

C2_HistoryAppendOnlyDedup ==
    /\ [](\A s \in DOMAIN session_memory : NoDuplicates(session_memory[s]))
    /\ [](\A r \in Slots : req[r].pc = "query" => C2_Recorded(r))
    /\ [][\A s \in Sessions :
             /\ IsPrefix(History(session_memory, s), History(session_memory', s))
             /\ s \in DOMAIN session_memory => s \in DOMAIN session_memory']_vars

\* A prompt submitted first, then another one, then the first one again: the
\* history is the one the call found.
C2_Witness ==
    \E r \in Slots :
        /\ req[r].pc = "query"
        /\ Len(req[r].before) >= 2
        /\ req[r].before[1] = Prompt(r)
        /\ History(session_memory, req[r].session_id) = req[r].before

(***************************************************************************)
(* C9 as stated: when the embedding step of the resolver starts, the       *)
(* prompt is already in the history of its session.                        *)
(***************************************************************************)
C9_RecordedBeforeEmbedding ==
    \A r \in Slots :
        req[r].pc = "encode" => Contains(History(session_memory, req[r].session_id), Prompt(r))

(***************************************************************************)
(* C9 amended: the prompt is recorded after its embedding is computed and  *)
(* before the index is queried: when the index query starts, and from then *)
(* until the resolver returns, the prompt is in the history of its         *)
(* session.                                                                *)
(***************************************************************************)
C9_RecordedBeforeQuery ==
    \A r \in Slots :
        req[r].pc \in {"query", "dispatch"} =>
            Contains(History(session_memory, req[r].session_id), Prompt(r))

\* The index query is about to start for a prompt that was not in the
\* history when the call began; it is the last entry now.
C9_Witness ==
    \E r \in Slots :
        /\ req[r].pc = "query"
        /\ ~ Contains(req[r].before, Prompt(r))
        /\ LET now == History(session_memory, req[r].session_id)
           IN  Len(now) > 0 /\ now[Len(now)] = Prompt(r)

(***************************************************************************)
(* C10: for every prompt of a request execute_function is called at most   *)
(* once, with the name the resolver returned; a handler runs at most once, *)
(* only when that name is in the allow-list and within the threshold of    *)
(* the prompt; a prompt that resolved to nothing runs no handler and gets  *)
(* the not-found result.                                                   *)
(***************************************************************************)
CallsFor(r, k) == {j \in 1..Len(req[r].calls) : req[r].calls[j].i = k}

C10_CallOk(r, c) ==
    /\ c.i \in 1..Len(req[r].resolved)
    /\ c.function_name = req[r].resolved[c.i]
    /\ c.function_name.t = "str"
    /\ c.ran \subseteq {NameOf(c.function_name)}
    /\ c.ran # {} =>
          /\ NameOf(c.function_name) \in ALLOWED_FUNCTIONS
          /\ Distance(Embed(req[r].prompts[c.i]), Embed(NameOf(c.function_name)))
                <= SIMILARITY_THRESHOLD

C10_NotFound(r, k) ==
    /\ CallsFor(r, k) = {}
    /\ (req[r].kind = "execute_multiple" /\ k <= Len(req[r].results)) =>
          req[r].results[k] = NoMatchEntry
    /\ (req[r].kind = "execute" /\ req[r].pc = "done") =>
          /\ req[r].response.status = 404
          /\ req[r].response.detail = PyStr("No matching function found")
          /\ req[r].response.output = PyNone

C10_AtMostOneHandlerRun ==
    \A r \in Slots :
        /\ \A j \in 1..Len(req[r].calls) : C10_CallOk(r, req[r].calls[j])
        /\ \A k \in 1..Len(req[r].resolved) :
              /\ Cardinality(CallsFor(r, k)) <= 1
              /\ req[r].resolved[k] = PyNone => C10_NotFound(r, k)

\* A request is answered after its handler raised: one call, one run.
C10_Witness ==
    \E r \in Slots :
        /\ req[r].pc = "done"
        /\ Len(req[r].calls) = 1
        /\ req[r].calls[1].ran = {"cpu_percent"}
        /\ req[r].response.output = PyStr("sensor unavailable")

(***************************************************************************)
(* C7: a finished batch request has one result per prompt, in input order: *)
(* the entry of a prompt is the no-match entry when the resolver returned  *)
(* None for it and otherwise holds the resolved name and the outcome of    *)
(* its dispatch; every prompt was resolved; the returned history is the    *)
(* history found at the start followed by the new prompts of the batch in  *)
(* submission order, so it holds every prompt of the batch.                *)
(***************************************************************************)
RECURSIVE Recorded(_, _)
\* The history after the prompts are recorded one by one, in order.
Recorded(history, prompts) ==
    IF prompts = <<>>
    THEN history
    ELSE Recorded(IF Contains(history, Head(prompts)) THEN history
                  ELSE Append(history, Head(prompts)),
                  Tail(prompts))

C7_EntryOk(r, k) ==
    LET entry == req[r].response.results[k]
        best == req[r].resolved[k]
    IN  IF best = PyNone
        THEN entry = NoMatchEntry
        ELSE /\ entry.function = best
             /\ \E j \in CallsFor(r, k) : entry.output = req[r].calls[j].output

C7_BatchResults ==
    \A r \in Slots :
        (req[r].pc = "done" /\ req[r].kind = "execute_multiple") =>
            /\ Len(req[r].response.results) = Len(req[r].prompts)
            /\ Len(req[r].resolved) = Len(req[r].prompts)
            /\ \A k \in 1..Len(req[r].prompts) : C7_EntryOk(r, k)
            /\ \A k \in 1..Len(req[r].prompts) :
                  Contains(req[r].response.session_history, req[r].prompts[k])
            /\ req[r].response.session_history = Recorded(req[r].history0, req[r].prompts)

\* A finished batch whose first prompt resolved to nothing and whose second
\* prompt was dispatched.
C7_Witness ==
    \E r \in Slots :
        /\ req[r].pc = "done"
        /\ req[r].kind = "execute_multiple"
        /\ Len(req[r].prompts) = 2
        /\ req[r].response.results[1] = NoMatchEntry
        /\ req[r].response.results[2].function = PyStr("get_cpu_usage")
        /\ req[r].response.session_history = req[r].prompts

(***************************************************************************)
(* C8: with two requests in the server at a time, no history holds a       *)
(* prompt twice, every prompt whose recording step has been passed is in   *)
(* the history of its session, and a step changes only the history of the  *)
(* session of the request that takes it.                                   *)
(***************************************************************************)
PastRecording(r, k) ==
    \/ k < req[r].i
    \/ k = req[r].i /\ req[r].pc \in {"query", "dispatch"}
    \/ req[r].pc \in {"respond", "done"}

C8_OwnSessionOnly(s) ==
    (History(session_memory', s) # History(session_memory, s)
        \/ (s \in DOMAIN session_memory') # (s \in DOMAIN session_memory))
    => \E r \in Slots :
          /\ req[r].session_id = s
          /\ req[r].pc \in {"setdefault", "append"}
          /\ req'[r].pc # req[r].pc

C8_ConcurrentSessions ==
    /\ [](\A s \in DOMAIN session_memory : NoDuplicates(session_memory[s]))
    /\ [](\A r \in Slots : \A k \in 1..Len(req[r].prompts) :
             PastRecording(r, k) =>
                 Contains(History(session_memory, req[r].session_id), req[r].prompts[k]))
    /\ [][\A s \in Sessions : C8_OwnSessionOnly(s)]_vars

\* Two requests with the same prompt for the same session are in the server:
\* one is about to append the prompt, the other waits for the event loop.
C8_Witness ==
    \E r1, r2 \in Slots :
        /\ r1 # r2
        /\ req[r1].pc = "append"
        /\ req[r2].pc = "queued"
        /\ req[r2].session_id = req[r1].session_id
        /\ Contains(req[r2].prompts, Prompt(r1))

====
